---- MODULE Spec2Model ----
(***************************************************************************)
(* Model of simple_nium_time_protocol: the NTP wire codec                  *)
(* (src/src/ntp_packet.rs) and the UDP responder loop (src/src/main.rs).   *)
(*                                                                         *)
(* Number representation.  TLC integers are 32 bits wide, while the code   *)
(* computes with u32 and i64 values.  A u32 or i64 value N is therefore    *)
(* held as a pair of 16-bit limbs <<hi, lo>> with N = hi * 65536 + lo,     *)
(* lo in 0..65535 (hi is negative for a negative i64).  Values the code    *)
(* keeps below 2^31 (nanoseconds, i32 root delay, bytes) are plain         *)
(* integers.                                                               *)
(***************************************************************************)
EXTENDS Integers, Sequences, FiniteSets, TLC

VARIABLES
    \* ---- the responder loop of main() ----
    pc,                 \* "recv" | "decode" | "send" | "stopped"
    buf_len,            \* buf.len() of the receive buffer
    datagram,           \* the datagram as the transport delivered it
    data,               \* the BytesMut split off buf, consumed by try_from
    receive_timestamp,  \* Utc::now() taken right after recv_from
    packet,             \* result of NtpMessage::try_from(&mut data)
    response,           \* Option<NtpMessage> built for the peer
    reply,              \* response.to_bytes(), the bytes handed to send_to
    n_sent,             \* number of send_to calls that completed
    logged,             \* the last line written to the log
    exit_cause,         \* why main() returned
    \* ---- the message codec applied to one input ----
    stage,              \* "frame" | "res" | "msg" | "wire" | "done" | "idle"
    frame,              \* input bytes
    res,                \* input NtpServerResponse (Option)
    now,                \* what Utc::now() returns at build time
    msg,                \* Result<NtpMessage>: decoded or built message
    wire,               \* msg.to_bytes()
    msg2,               \* Result<NtpMessage>: decode of wire
    \* ---- the timestamp codec applied to one instant ----
    ts_stage,           \* "instant" | "bytes" | "back" | "idle"
    ts,                 \* input NtpTimestamp
    ts_wire,            \* ts.to_bytes()
    ts_back             \* NtpTimestamp::try_from(ts_wire)

loop_vars == <<pc, buf_len, datagram, data, receive_timestamp, packet,
                response, reply, n_sent, logged, exit_cause>>
codec_vars == <<stage, frame, res, now, msg, wire, msg2>>
ts_vars == <<ts_stage, ts, ts_wire, ts_back>>
vars == <<loop_vars, codec_vars, ts_vars>>

(***************************************************************************)
(* Option and Result                                                       *)
(***************************************************************************)
None == [some |-> FALSE]
Some(x) == [some |-> TRUE, val |-> x]

Ok(v, rest) == [ok |-> TRUE, val |-> v, rest |-> rest]
Err(e, rest) == [ok |-> FALSE, err |-> e, rest |-> rest]

(***************************************************************************)
(* Bytes and fixed-width integers                                          *)
(***************************************************************************)
Limb == 65536

\* Buf::get_u32: four big-endian bytes as a u32 (limb pair).
get_u32(b) == <<b[1] * 256 + b[2], b[3] * 256 + b[4]>>

\* u32::to_be_bytes of a limb pair.
u32_to_be_bytes(x) == <<x[1] \div 256, x[1] % 256, x[2] \div 256, x[2] % 256>>

\* u32::to_be_bytes of a u32 below 2^31 held as a plain integer.
int_to_be_bytes(n) ==
    <<n \div 16777216, (n \div 65536) % 256, (n \div 256) % 256, n % 256>>

\* Buf::get_i32: four big-endian bytes as a two's-complement i32.
get_i32(b) ==
    (IF b[1] >= 128 THEN b[1] - 256 ELSE b[1]) * 16777216
        + b[2] * 65536 + b[3] * 256 + b[4]

\* i32::to_be_bytes.
i32_to_be_bytes(x) ==
    LET lo == x % 65536
        hi == ((x - lo) \div 65536) % 65536
    IN  <<hi \div 256, hi % 256, lo \div 256, lo % 256>>

\* Buf::get_i8 and `precision as u8`.
get_i8(b) == IF b >= 128 THEN b - 256 ELSE b
i8_as_u8(x) == x % 256

\* i64 subtraction and addition on limb pairs.
i64_sub(a, b) ==
    LET d == a[2] - b[2]
        borrow == IF d < 0 THEN 1 ELSE 0
    IN  <<a[1] - b[1] - borrow, d + borrow * Limb>>
i64_add(a, b) ==
    LET s == a[2] + b[2]
        carry == IF s >= Limb THEN 1 ELSE 0
    IN  <<a[1] + b[1] + carry, s - carry * Limb>>

\* `x as u32` of an i64 limb pair: the low 32 bits.
i64_as_u32(x) == <<x[1] % Limb, x[2]>>

\* Seconds between 1900-01-01 and 1970-01-01: 2208988800 = 33706 * 65536 + 32384.
NTP_UNIX_OFFSET == <<33706, 32384>>

(***************************************************************************)
(* pad_int                                                                 *)
(***************************************************************************)
RECURSIVE pow10(_)
pow10(k) == IF k = 0 THEN 1 ELSE 10 * pow10(k - 1)

\* 10^9 = 15258 * 65536 + 51712
AtLeast1e9(x) == x[1] > 15258 \/ (x[1] = 15258 /\ x[2] >= 51712)

RECURSIVE digits_of(_)
digits_of(n) == IF n < 10 THEN 1 ELSE 1 + digits_of(n \div 10)

\* integer.to_string().len() for a non-negative value below 2^32.
digit_length(x) ==
    IF AtLeast1e9(x) THEN 10 ELSE digits_of(x[1] * Limb + x[2])

\* floor(x / 10^k) for k >= 1, by long division over the two limbs.
div_pow10(x, k) ==
    LET p == pow10(k)
    IN  (x[1] \div p) * Limb + ((x[1] % p) * Limb + x[2]) \div p

\* pad_int(integer, expected_digits): integer * 10^(expected - digits),
\* truncated.  The f64 product is exact when the exponent is >= 0 (the
\* result is below 10^expected), and for a negative exponent the truncated
\* f64 product equals the integer quotient for every value below 2^32.
pad_int(integer, expected_digits) ==
    LET digit_len == digit_length(integer)
    IN  IF expected_digits >= digit_len
        THEN (integer[1] * Limb + integer[2]) * pow10(expected_digits - digit_len)
        ELSE div_pow10(integer, digit_len - expected_digits)

(***************************************************************************)
(* NtpTimestamp: a NaiveDateTime [secs |-> unix seconds (limb pair),       *)
(* nanos |-> 0..999999999]                                                 *)
(***************************************************************************)
NANOS_PER_SEC == 1000000000

\* NaiveDateTime::from_timestamp_opt: every second count a u32 NTP second
\* maps to is in chrono's range; the nanosecond part must be a sub-second
\* (pad_int(_, 9) never yields 10^9 or more, so chrono's leap-second range
\* above it is never asked for).
from_timestamp_opt(secs, nsecs) ==
    IF nsecs < NANOS_PER_SEC THEN Some([secs |-> secs, nanos |-> nsecs]) ELSE None

\* impl TryFrom<&mut BytesMut> for NtpTimestamp, on the 8 bytes of a field.
NtpTimestamp_try_from(value) ==
    LET seconds == get_u32(SubSeq(value, 1, 4))
        fraction == get_u32(SubSeq(value, 5, 8))
        nano_seconds == pad_int(fraction, 9)
        seconds_unix_format == i64_sub(seconds, NTP_UNIX_OFFSET)
        timestamp == from_timestamp_opt(seconds_unix_format, nano_seconds)
    IN  IF seconds = <<0, 0>> /\ nano_seconds = 0
        THEN [ok |-> FALSE, err |-> "Zero"]
        ELSE IF timestamp.some
             THEN [ok |-> TRUE, val |-> timestamp.val]
             ELSE [ok |-> FALSE, err |-> "Invalid"]

\* NtpTimestamp::to_bytes
NtpTimestamp_to_bytes(self) ==
    LET timestamp == i64_as_u32(i64_add(self.secs, NTP_UNIX_OFFSET))
        fraction == self.nanos
    IN  u32_to_be_bytes(timestamp) \o int_to_be_bytes(fraction)

(***************************************************************************)
(* Enumerations                                                            *)
(***************************************************************************)
\* FromRepr of LeapIndicator, VersionNumber and Mode
LeapIndicator_from_repr(d) ==
    CASE d = 0 -> Some("NoWarning")
      [] d = 1 -> Some("LastMinuteHas61Seconds")
      [] d = 2 -> Some("LastMinuteHas59Seconds")
      [] d = 3 -> Some("AlarmConditionClockNotSynchronised")
      [] OTHER -> None

VersionNumber_from_repr(d) ==
    CASE d = 1 -> Some("One")
      [] d = 2 -> Some("Two")
      [] d = 3 -> Some("Three")
      [] d = 4 -> Some("Four")
      [] OTHER -> None

Mode_from_repr(d) ==
    CASE d = 0 -> Some("Reserved")
      [] d = 1 -> Some("SymmetricActive")
      [] d = 2 -> Some("SymmetricPassive")
      [] d = 3 -> Some("Client")
      [] d = 4 -> Some("Server")
      [] d = 5 -> Some("Broadcast")
      [] d = 6 -> Some("ReservedForNtpControlMessage")
      [] d = 7 -> Some("ReservedForPrivateUse")
      [] OTHER -> None

\* `self.li as u8`, `self.vn as u8`, `self.mode as u8`: the discriminants
LeapIndicator_as_u8 ==
    [NoWarning |-> 0, LastMinuteHas61Seconds |-> 1,
     LastMinuteHas59Seconds |-> 2, AlarmConditionClockNotSynchronised |-> 3]
VersionNumber_as_u8 == [One |-> 1, Two |-> 2, Three |-> 3, Four |-> 4]
Mode_as_u8 ==
    [Reserved |-> 0, SymmetricActive |-> 1, SymmetricPassive |-> 2,
     Client |-> 3, Server |-> 4, Broadcast |-> 5,
     ReservedForNtpControlMessage |-> 6, ReservedForPrivateUse |-> 7]

\* impl From<u8> for Stratum
Stratum_from(value) ==
    CASE value = 0 -> "KissODeathMessage"
      [] value = 1 -> "PrimaryReference"
      [] value \in 2..15 -> "SecondaryReference"
      [] OTHER -> "Reserved"

\* Faulty variant: enum Stratum without the explicit `= 16`, so that Reserved gets
\* the next discriminant, 3.
Stratum_as_u8_sequential ==
    [KissODeathMessage |-> 0, PrimaryReference |-> 1,
     SecondaryReference |-> 2, Reserved |-> 3]

\* `self.stratum as u8`: the discriminants of enum Stratum
Stratum_as_u8 ==
    [KissODeathMessage |-> 0, PrimaryReference |-> 1,
     SecondaryReference |-> 2, Reserved |-> 16]

\* AsRefStr of ExternalReferenceSource: the variant name as ASCII bytes
ExternalReferenceSource_as_ref ==
    [LOCL |-> <<76, 79, 67, 76>>,
     CESM |-> <<67, 69, 83, 77>>,
     RBDM |-> <<82, 66, 68, 77>>,
     PPS |-> <<80, 80, 83>>,
     IRIG |-> <<73, 82, 73, 71>>,
     ACTS |-> <<65, 67, 84, 83>>,
     USNO |-> <<85, 83, 78, 79>>,
     PTB |-> <<80, 84, 66>>,
     TDF |-> <<84, 68, 70>>,
     DCF |-> <<68, 67, 70>>,
     MSF |-> <<77, 83, 70>>,
     WWV |-> <<87, 87, 86>>,
     WWVB |-> <<87, 87, 86, 66>>,
     WWVH |-> <<87, 87, 86, 72>>,
     CHU |-> <<67, 72, 85>>,
     LORC |-> <<76, 79, 82, 67>>,
     OMEG |-> <<79, 77, 69, 71>>,
     GPS |-> <<71, 80, 83>>]
ExternalReferenceSource == DOMAIN ExternalReferenceSource_as_ref

\* AsRefStr of KissODeathIdentifier
KissODeathIdentifier_as_ref ==
    [ACST |-> <<65, 67, 83, 84>>,
     AUTH |-> <<65, 85, 84, 72>>,
     AUTO |-> <<65, 85, 84, 79>>,
     BCST |-> <<66, 67, 83, 84>>,
     CRYP |-> <<67, 82, 89, 80>>,
     DENY |-> <<68, 69, 78, 89>>,
     DROP |-> <<68, 82, 79, 80>>,
     RSTR |-> <<82, 83, 84, 82>>,
     INIT |-> <<73, 78, 73, 84>>,
     MCST |-> <<77, 67, 83, 84>>,
     NKEY |-> <<78, 75, 69, 89>>,
     RATE |-> <<82, 65, 84, 69>>,
     RMOT |-> <<82, 77, 79, 84>>,
     STEP |-> <<83, 84, 69, 80>>]
KissODeathIdentifier == DOMAIN KissODeathIdentifier_as_ref

\* EnumString (FromStr): the variant whose name is exactly the given text
ExternalReferenceSource_from_str(s) ==
    IF \E n \in ExternalReferenceSource : ExternalReferenceSource_as_ref[n] = s
    THEN Some(CHOOSE n \in ExternalReferenceSource :
                  ExternalReferenceSource_as_ref[n] = s)
    ELSE None

KissODeathIdentifier_from_str(s) ==
    IF \E n \in KissODeathIdentifier : KissODeathIdentifier_as_ref[n] = s
    THEN Some(CHOOSE n \in KissODeathIdentifier :
                  KissODeathIdentifier_as_ref[n] = s)
    ELSE None

\* str::from_utf8(..).is_ok(): the bytes are well-formed UTF-8
Cont(b) == b \in 128..191
RECURSIVE from_utf8_ok(_)
from_utf8_ok(s) ==
    LET n == Len(s)
        rest(k) == from_utf8_ok(SubSeq(s, k + 1, n))
    IN  IF n = 0 THEN TRUE
        ELSE CASE s[1] <= 127 -> rest(1)
               [] s[1] \in 194..223 -> n >= 2 /\ Cont(s[2]) /\ rest(2)
               [] s[1] = 224 -> n >= 3 /\ s[2] \in 160..191 /\ Cont(s[3]) /\ rest(3)
               [] s[1] \in (225..236) \cup {238, 239} ->
                      n >= 3 /\ Cont(s[2]) /\ Cont(s[3]) /\ rest(3)
               [] s[1] = 237 -> n >= 3 /\ s[2] \in 128..159 /\ Cont(s[3]) /\ rest(3)
               [] s[1] = 240 ->
                      n >= 4 /\ s[2] \in 144..191 /\ Cont(s[3]) /\ Cont(s[4]) /\ rest(4)
               [] s[1] \in 241..243 ->
                      n >= 4 /\ Cont(s[2]) /\ Cont(s[3]) /\ Cont(s[4]) /\ rest(4)
               [] s[1] = 244 ->
                      n >= 4 /\ s[2] \in 128..143 /\ Cont(s[3]) /\ Cont(s[4]) /\ rest(4)
               [] OTHER -> FALSE

(***************************************************************************)
(* ReferenceIdentifier: [tag |-> variant, v |-> payload]; the payload is    *)
(* [kod |-> name], an Option of a source name, [u32 |-> limb pair] or       *)
(* [octets |-> four bytes]                                                 *)
(***************************************************************************)
RefId(tag, v) == [tag |-> tag, v |-> v]

\* The reference_identifier block of NtpMessage::try_from: the four bytes
\* are split off first, then interpreted by mode and stratum.
decode_reference_identifier(slice, mode, stratum) ==
    IF mode = "Client" THEN [ok |-> TRUE, val |-> None]
    ELSE CASE stratum = "KissODeathMessage" ->
                IF ~from_utf8_ok(slice)
                THEN [ok |-> FALSE, err |-> "invalid utf-8 sequence"]
                ELSE LET kod == KissODeathIdentifier_from_str(slice)
                     IN  IF kod.some
                         THEN [ok |-> TRUE, val |-> Some(RefId("KissODeath", [kod |-> kod.val]))]
                         ELSE [ok |-> FALSE, err |-> "Invalid Kiss-O-Death Identifier"]
           [] stratum = "PrimaryReference" ->
                IF ~from_utf8_ok(slice)
                THEN [ok |-> FALSE, err |-> "invalid utf-8 sequence"]
                ELSE [ok |-> TRUE,
                      val |-> Some(RefId("Primary",
                                         ExternalReferenceSource_from_str(slice)))]
           [] stratum = "SecondaryReference" ->
                [ok |-> TRUE, val |-> Some(RefId("UnknownIpVersion", [u32 |-> get_u32(slice)]))]
           [] OTHER ->
                [ok |-> TRUE, val |-> Some(RefId("ReservedStratum", [u32 |-> get_u32(slice)]))]

Zeros(n) == [i \in 1..n |-> 0]

\* The reference_identifier match of NtpMessage::to_bytes: bytes[12..16]
encode_reference_identifier(rid) ==
    IF ~rid.some THEN Zeros(4)
    ELSE CASE rid.val.tag = "KissODeath" -> KissODeathIdentifier_as_ref[rid.val.v.kod]
           [] rid.val.tag = "Primary" ->
                IF rid.val.v.some
                THEN LET reference_source == ExternalReferenceSource_as_ref[rid.val.v.val]
                         diff == 4 - Len(reference_source)
                     IN  reference_source \o Zeros(diff)
                ELSE Zeros(4)
           [] rid.val.tag = "IPv4Secondary" -> rid.val.v.octets
           [] OTHER -> u32_to_be_bytes(rid.val.v.u32)

(***************************************************************************)
(* NtpMessage                                                              *)
(***************************************************************************)
\* An optional timestamp field of to_bytes: Some(ts) => ts.to_bytes(), None => [0; 8]
encode_optional_timestamp(t) ==
    IF t.some THEN NtpTimestamp_to_bytes(t.val) ELSE Zeros(8)

\* NtpMessage::to_bytes
NtpMessage_to_bytes(self) ==
    LET flags == LeapIndicator_as_u8[self.li] * 64
                   + VersionNumber_as_u8[self.vn] * 8
                   + Mode_as_u8[self.mode]
    IN  <<flags, Stratum_as_u8[self.stratum], self.poll_interval,
          i8_as_u8(self.precision)>>
        \o i32_to_be_bytes(self.root_delay)
        \o u32_to_be_bytes(self.root_dispersion)
        \o encode_reference_identifier(self.reference_identifier)
        \o encode_optional_timestamp(self.reference_timestamp)
        \o encode_optional_timestamp(self.originate_timestamp)
        \o encode_optional_timestamp(self.receive_timestamp)
        \o NtpTimestamp_to_bytes(self.transmit_timestamp)

\* An optional timestamp field of try_from: Ok(ts) => Some(ts), Err(_) => None
decode_optional_timestamp(b) ==
    LET r == NtpTimestamp_try_from(b)
    IN  IF r.ok THEN Some(r.val) ELSE None

\* The body of NtpMessage::try_from after the length check, on a buffer of
\* at least 48 bytes.  `rest` is what is left in the caller's buffer: every
\* split_to before the return has consumed its bytes.
NtpMessage_parse(value) ==
    LET n == Len(value)
        from(k) == SubSeq(value, k, n)
        flags == value[1]
        li == LeapIndicator_from_repr(flags \div 64)
        vn == VersionNumber_from_repr((flags % 64) \div 8)
        mode == Mode_from_repr(flags % 8)
        stratum == Stratum_from(value[2])
        reference_identifier ==
            decode_reference_identifier(SubSeq(value, 13, 16), mode.val, stratum)
        transmit_timestamp == NtpTimestamp_try_from(SubSeq(value, 41, 48))
    IN  IF ~li.some THEN Err("Unable to parse LeapIndicator", from(2))
        ELSE IF ~vn.some THEN Err("Unable to parse VersionNumber", from(2))
        ELSE IF ~mode.some THEN Err("Unable to parse Mode", from(2))
        ELSE IF ~reference_identifier.ok
             THEN Err(reference_identifier.err, from(17))
        ELSE IF ~transmit_timestamp.ok
             THEN Err("Unable to parse transmit timestamp", from(49))
        ELSE Ok([li |-> li.val,
                 vn |-> vn.val,
                 mode |-> mode.val,
                 stratum |-> stratum,
                 poll_interval |-> value[3],
                 precision |-> get_i8(value[4]),
                 root_delay |-> get_i32(SubSeq(value, 5, 8)),
                 root_dispersion |-> get_u32(SubSeq(value, 9, 12)),
                 reference_identifier |-> reference_identifier.val,
                 reference_timestamp |-> decode_optional_timestamp(SubSeq(value, 17, 24)),
                 originate_timestamp |-> decode_optional_timestamp(SubSeq(value, 25, 32)),
                 receive_timestamp |-> decode_optional_timestamp(SubSeq(value, 33, 40)),
                 transmit_timestamp |-> transmit_timestamp.val],
                from(49))

\* Faulty variant: the flags byte is read and validated before the length check.
NtpMessage_try_from_flags_first(value) ==
    IF Len(value) >= 1 /\ ~VersionNumber_from_repr((value[1] % 64) \div 8).some
    THEN Err("Unable to parse VersionNumber", SubSeq(value, 2, Len(value)))
    ELSE IF Len(value) < 48
         THEN Err("Packet is too small", value)
         ELSE NtpMessage_parse(value)

\* impl TryFrom<&mut BytesMut> for NtpMessage: the length check comes first
\* and leaves the buffer untouched.
NtpMessage_try_from(value) ==
    IF Len(value) < 48
    THEN Err("Packet is too small", value)
    ELSE NtpMessage_parse(value)

\* Faulty variant: the supplied transmit timestamp is ignored, the clock always read.
new_server_response_now(r, utc_now) ==
    [li |-> r.leap_indicator,
     vn |-> r.version_number,
     mode |-> "Server",
     stratum |-> r.stratum,
     poll_interval |-> r.poll_interval,
     precision |-> r.precision,
     root_delay |-> r.root_delay,
     root_dispersion |-> r.root_dispersion,
     reference_identifier |-> Some(r.reference_identifier),
     reference_timestamp |-> Some(r.reference_timestamp),
     originate_timestamp |-> r.originate_timestamp,
     receive_timestamp |-> Some(r.receive_timestamp),
     transmit_timestamp |-> utc_now]

\* NtpMessage::new_server_response; utc_now is what Utc::now() returns
new_server_response(r, utc_now) ==
    [li |-> r.leap_indicator,
     vn |-> r.version_number,
     mode |-> "Server",
     stratum |-> r.stratum,
     poll_interval |-> r.poll_interval,
     precision |-> r.precision,
     root_delay |-> r.root_delay,
     root_dispersion |-> r.root_dispersion,
     reference_identifier |-> Some(r.reference_identifier),
     reference_timestamp |-> Some(r.reference_timestamp),
     originate_timestamp |-> r.originate_timestamp,
     receive_timestamp |-> Some(r.receive_timestamp),
     transmit_timestamp |-> IF r.transmit_timestamp.some
                            THEN r.transmit_timestamp.val
                            ELSE utc_now]

(***************************************************************************)
(* Inputs                                                                  *)
(***************************************************************************)
\* Trailing bytes a datagram may carry after the 48-byte frame.
MaxExtra == 2
\* Replies the responder sends before the exploration stops receiving.
MaxSent == 2

Instant(secs, nanos) == [secs |-> secs, nanos |-> nanos]

\* Unix seconds as limb pairs: 1900-01-01 (-2208988800), one second later,
\* 1970-01-01, one second later, 2024-01-01 (1704067200), and the last
\* second a u32 NTP second holds (2085978495).
InstantSecs ==
    {<<-33707, 33152>>, <<-33707, 33153>>, <<0, 0>>, <<0, 1>>,
     <<26002, 128>>, <<31829, 33151>>}
InstantNanos ==
    {0, 1, 5, 99, 4096, 12345678, 99999999, 100000000, 123456789,
     500000000, 999999999}
Instants == {Instant(s0, n0) : s0 \in InstantSecs, n0 \in InstantNanos}

\* What Utc::now() may return.
ClockInstants ==
    {Instant(<<26002, 128>>, 0), Instant(<<26002, 128>>, 500000000),
     Instant(<<26002, 129>>, 250)}

\* Eight wire bytes of a timestamp field from its two u32 words.
WireTs(seconds, fraction) == u32_to_be_bytes(seconds) \o u32_to_be_bytes(fraction)

TsZero == WireTs(<<0, 0>>, <<0, 0>>)
TsEra0 == WireTs(<<0, 0>>, <<0, 5>>)
TsHalf == WireTs(<<33706, 32384>>, <<32768, 0>>)
TsWhole == WireTs(<<59708, 32512>>, <<0, 0>>)
TsNine == WireTs(<<59708, 32512>>, <<1883, 52501>>)
TsTenDig == WireTs(<<0, 1>>, <<15258, 51712>>)
TsMax == WireTs(<<65535, 65535>>, <<65535, 65535>>)
TsShort == WireTs(<<59708, 32512>>, <<0, 4096>>)

TransmitFields == {TsZero, TsEra0, TsHalf, TsWhole, TsNine, TsTenDig, TsMax, TsShort}
OptionalFields == {<<TsZero, TsZero, TsZero>>, <<TsNine, TsZero, TsHalf>>,
                   <<TsMax, TsEra0, TsShort>>}

\* flags bytes: li|vn|mode = 0|4|Client, 3|4|Broadcast, 0|3|Server,
\* 2|1|SymmetricActive, 1|2|Reserved, and the invalid versions 0, 5 and 7
ValidFlags == {35, 229, 28, 137, 80}
InvalidFlags == {3, 108, 254}
StratumBytes == {0, 1, 2, 15, 16, 255}

\* reference-identifier bytes: "GPS\0", "GPS ", "ZZZZ", "LOCL", "WWVB",
\* "DENY", "RATE", zeros, 0xFFFFFFFF, 192.168.1.1, and the UTF-8 text "éAB"
RefIdFields ==
    {<<71, 80, 83, 0>>, <<71, 80, 83, 32>>, <<90, 90, 90, 90>>, <<76, 79, 67, 76>>,
     <<87, 87, 86, 66>>, <<68, 69, 78, 89>>, <<82, 65, 84, 69>>, <<0, 0, 0, 0>>,
     <<255, 255, 255, 255>>, <<192, 168, 1, 1>>, <<195, 169, 65, 66>>}

\* poll interval, precision, root delay, root dispersion
MiscFields ==
    {<<0, 0, 0, 0, 0, 0, 0, 0, 0, 0>>,
     <<4, 250, 0, 0, 0, 50, 0, 0, 0, 20>>,
     <<255, 128, 255, 255, 255, 255, 255, 255, 255, 255>>,
     <<6, 127, 128, 0, 0, 0, 128, 0, 0, 1>>}

RawFrame(flags, stratum, misc, refid, opt, transmit) ==
    <<flags, stratum>> \o misc \o refid \o opt[1] \o opt[2] \o opt[3] \o transmit

Frames48 ==
    {RawFrame(f, st, mi, ri, op, tx) :
        f \in ValidFlags \cup InvalidFlags, st \in StratumBytes, mi \in MiscFields,
        ri \in RefIdFields, op \in OptionalFields, tx \in TransmitFields}

\* A few frames that are cut short or carry trailing bytes.
SampleFrames ==
    {RawFrame(35, 0, <<4, 250, 0, 0, 0, 50, 0, 0, 0, 20>>, <<0, 0, 0, 0>>,
              <<TsZero, TsZero, TsZero>>, TsNine),
     RawFrame(229, 1, <<4, 250, 0, 0, 0, 50, 0, 0, 0, 20>>, <<76, 79, 67, 76>>,
              <<TsNine, TsZero, TsHalf>>, TsHalf),
     RawFrame(254, 0, <<0, 0, 0, 0, 0, 0, 0, 0, 0, 0>>, <<255, 255, 255, 255>>,
              <<TsZero, TsZero, TsZero>>, TsZero),
     RawFrame(3, 2, <<0, 0, 0, 0, 0, 0, 0, 0, 0, 0>>, <<192, 168, 1, 1>>,
              <<TsZero, TsZero, TsZero>>, TsMax)}

ShortFrames == {SubSeq(f, 1, n) : f \in SampleFrames, n \in 0..47}

ExtraBytes == UNION {[1..k -> {0, 255}] : k \in 1..MaxExtra}
LongFrames == {f \o e : f \in SampleFrames, e \in ExtraBytes}

InputFrames == Frames48 \cup ShortFrames \cup LongFrames

\* NtpServerResponse values a caller can assemble.
InputRefIds ==
    {RefId("Primary", Some(n)) : n \in ExternalReferenceSource}
    \cup {RefId("Primary", None), RefId("KissODeath", [kod |-> "DENY"]),
          RefId("UnknownIpVersion", [u32 |-> <<49320, 257>>]),
          RefId("ReservedStratum", [u32 |-> <<65535, 65535>>]),
          RefId("IPv4Secondary", [octets |-> <<192, 168, 1, 1>>]),
          RefId("IPv6AndOSISecondary", [u32 |-> <<1, 2>>])}

InputResponses ==
    {[leap_indicator |-> l0,
      version_number |-> "Four",
      stratum |-> st,
      poll_interval |-> mi[1],
      precision |-> mi[2],
      root_delay |-> mi[3],
      root_dispersion |-> mi[4],
      reference_identifier |-> ri,
      reference_timestamp |-> Instant(<<26002, 128>>, 123456789),
      originate_timestamp |-> og,
      receive_timestamp |-> Instant(<<26002, 128>>, 99),
      transmit_timestamp |-> tx] :
        l0 \in {"NoWarning", "AlarmConditionClockNotSynchronised"},
        st \in {"KissODeathMessage", "PrimaryReference", "SecondaryReference", "Reserved"},
        mi \in {<<4, -6, 50, <<0, 20>>>>, <<255, -128, -2147483647 - 1, <<65535, 65535>>>>},
        ri \in InputRefIds,
        og \in {None, Some(Instant(<<26002, 127>>, 500000000))},
        tx \in {None, Some(Instant(<<26002, 129>>, 250))}}

NoResult == [ok |-> FALSE, err |-> "none", rest |-> <<>>]
NoTimestamp == [ok |-> FALSE, err |-> "none"]

(***************************************************************************)
(* The timestamp codec applied to one instant                              *)
(***************************************************************************)
LoopIdle ==
    /\ pc = "idle" /\ buf_len = 0 /\ datagram = <<>> /\ data = <<>>
    /\ receive_timestamp = None /\ packet = NoResult /\ response = None
    /\ reply = <<>> /\ n_sent = 0 /\ logged = "" /\ exit_cause = "idle"
CodecIdle ==
    /\ stage = "idle" /\ frame = <<>> /\ res = None
    /\ now = Instant(<<0, 0>>, 0) /\ msg = NoResult /\ wire = <<>> /\ msg2 = NoResult
TsIdle ==
    /\ ts_stage = "idle" /\ ts = Instant(<<0, 0>>, 0) /\ ts_wire = <<>>
    /\ ts_back = NoTimestamp

InitTs ==
    /\ LoopIdle /\ CodecIdle
    /\ ts_stage = "instant"
    /\ ts \in Instants
    /\ ts_wire = <<>>
    /\ ts_back = NoTimestamp

TsEncode ==
    /\ ts_stage = "instant"
    /\ ts_wire' = NtpTimestamp_to_bytes(ts)
    /\ ts_stage' = "bytes"
    /\ UNCHANGED <<ts, ts_back, loop_vars, codec_vars>>

TsDecode ==
    /\ ts_stage = "bytes"
    /\ ts_back' = NtpTimestamp_try_from(ts_wire)
    /\ ts_stage' = "back"
    /\ UNCHANGED <<ts, ts_wire, loop_vars, codec_vars>>

NextTs == TsEncode \/ TsDecode
SpecTs == InitTs /\ [][NextTs]_vars

(***************************************************************************)
(* The message codec applied to one frame or one NtpServerResponse         *)
(***************************************************************************)
InitCodec ==
    /\ LoopIdle /\ TsIdle
    /\ msg = NoResult /\ wire = <<>> /\ msg2 = NoResult
    /\ \/ /\ stage = "frame"
          /\ frame \in InputFrames
          /\ res = None
          /\ now = Instant(<<0, 0>>, 0)
       \/ /\ stage = "res"
          /\ frame = <<>>
          /\ res \in {Some(r) : r \in InputResponses}
          /\ now \in ClockInstants

Decode ==
    /\ stage = "frame"
    /\ msg' = NtpMessage_try_from(frame)
    /\ stage' = IF msg'.ok THEN "msg" ELSE "failed"
    /\ UNCHANGED <<frame, res, now, wire, msg2, loop_vars, ts_vars>>

Build ==
    /\ stage = "res"
    /\ msg' = [ok |-> TRUE, val |-> new_server_response(res.val, now)]
    /\ stage' = "msg"
    /\ UNCHANGED <<frame, res, now, wire, msg2, loop_vars, ts_vars>>

Encode ==
    /\ stage = "msg"
    /\ wire' = NtpMessage_to_bytes(msg.val)
    /\ stage' = "wire"
    /\ UNCHANGED <<frame, res, now, msg, msg2, loop_vars, ts_vars>>

Redecode ==
    /\ stage = "wire"
    /\ msg2' = NtpMessage_try_from(wire)
    /\ stage' = "done"
    /\ UNCHANGED <<frame, res, now, msg, wire, loop_vars, ts_vars>>

NextCodec == Decode \/ Build \/ Encode \/ Redecode
SpecCodec == InitCodec /\ [][NextCodec]_vars

(***************************************************************************)
(* The responder loop of main()                                            *)
(***************************************************************************)
BUF_SIZE == 512

\* Datagrams the transport may deliver (each fits the 512-byte buffer).
Datagrams ==
    {RawFrame(f, st, <<4, 250, 0, 0, 0, 50, 0, 0, 0, 20>>, ri, op, tx) :
        f \in {35, 229, 3}, st \in {0, 1, 2, 16},
        ri \in {<<0, 0, 0, 0>>, <<68, 69, 78, 89>>, <<255, 255, 255, 255>>},
        op \in {<<TsZero, TsZero, TsZero>>, <<TsNine, TsZero, TsHalf>>},
        tx \in TransmitFields}
    \cup {SubSeq(f, 1, n) : f \in SampleFrames, n \in {0, 1, 47}}
    \cup LongFrames

\* The NtpServerResponse literal of main(): clock reads t_ref and t_tx are
\* taken while it is built, recv_ts was taken right after recv_from.
server_response(request, recv_ts, t_ref, t_tx) ==
    [leap_indicator |-> "NoWarning",
     version_number |-> request.vn,
     stratum |-> "SecondaryReference",
     poll_interval |-> 4,
     precision |-> -6,
     root_delay |-> 50,
     root_dispersion |-> <<0, 20>>,
     reference_identifier |-> RefId("Primary", Some("GPS")),
     reference_timestamp |-> t_ref,
     originate_timestamp |-> Some(request.transmit_timestamp),
     receive_timestamp |-> recv_ts,
     transmit_timestamp |-> Some(t_tx)]

Init ==
    /\ CodecIdle /\ TsIdle
    /\ pc = "recv"
    /\ buf_len = BUF_SIZE
    /\ datagram = <<>>
    /\ data = <<>>
    /\ receive_timestamp = None
    /\ packet = NoResult
    /\ response = None
    /\ reply = <<>>
    /\ n_sent = 0
    /\ logged = "Listening"
    /\ exit_cause = "running"

\* recv_from returns Ok((size, peer)): the clock is read, the datagram is
\* split off the buffer and the buffer is grown back by size.
Recv ==
    /\ pc = "recv"
    /\ n_sent < MaxSent
    /\ \E d \in Datagrams, t \in ClockInstants :
         LET size == Len(d)
             after_split == buf_len - size
         IN  /\ size <= buf_len
             /\ datagram' = d
             /\ receive_timestamp' = Some(t)
             /\ data' = d
             /\ buf_len' = after_split + size
    /\ pc' = "decode"
    /\ UNCHANGED <<packet, response, reply, n_sent, logged, exit_cause,
                   codec_vars, ts_vars>>

\* recv_from returns Err: `?` returns from main
RecvError ==
    /\ pc = "recv"
    /\ pc' = "stopped"
    /\ exit_cause' = "recv_from error"
    /\ UNCHANGED <<buf_len, datagram, data, receive_timestamp, packet, response,
                   reply, n_sent, logged, codec_vars, ts_vars>>

\* The Ok(packet) arm up to the send_to call: the response is built and
\* serialised.
HandleOk ==
    /\ pc = "decode"
    /\ LET r == NtpMessage_try_from(data)
       IN  /\ r.ok
           /\ packet' = r
           /\ data' = r.rest
           /\ \E t_ref \in ClockInstants, t_tx \in ClockInstants :
                response' = Some(new_server_response(
                    server_response(r.val, receive_timestamp.val, t_ref, t_tx), t_tx))
    /\ reply' = NtpMessage_to_bytes(response'.val)
    /\ logged' = "About to send"
    /\ pc' = "send"
    /\ UNCHANGED <<buf_len, datagram, receive_timestamp, n_sent, exit_cause,
                   codec_vars, ts_vars>>

\* The values of one iteration go out of scope at the end of the loop body.
EndOfIteration ==
    /\ datagram' = <<>>
    /\ data' = <<>>
    /\ receive_timestamp' = None
    /\ packet' = NoResult
    /\ response' = None
    /\ reply' = <<>>

\* Faulty variant: the decode error is propagated with `?` and main returns.
HandleErr_propagate ==
    /\ pc = "decode"
    /\ ~NtpMessage_try_from(data).ok
    /\ pc' = "stopped"
    /\ exit_cause' = NtpMessage_try_from(data).err
    /\ UNCHANGED <<buf_len, datagram, data, receive_timestamp, packet, response,
                   reply, n_sent, logged, codec_vars, ts_vars>>

\* The Err(err) arm: the error is logged and the loop goes on.
HandleErr ==
    /\ pc = "decode"
    /\ ~NtpMessage_try_from(data).ok
    /\ logged' = NtpMessage_try_from(data).err
    /\ EndOfIteration
    /\ pc' = "recv"
    /\ UNCHANGED <<buf_len, n_sent, exit_cause, codec_vars, ts_vars>>

\* send_to(&response.to_bytes(), peer) returns Ok
Send ==
    /\ pc = "send"
    /\ n_sent' = n_sent + 1
    /\ logged' = "Successfully sent response"
    /\ EndOfIteration
    /\ pc' = "recv"
    /\ UNCHANGED <<buf_len, exit_cause, codec_vars, ts_vars>>

\* send_to returns Err: `?` returns from main
SendError ==
    /\ pc = "send"
    /\ pc' = "stopped"
    /\ exit_cause' = "send_to error"
    /\ UNCHANGED <<buf_len, datagram, data, receive_timestamp, packet, response,
                   reply, n_sent, logged, codec_vars, ts_vars>>

Next == Recv \/ RecvError \/ HandleOk \/ HandleErr \/ Send \/ SendError
Spec == Init /\ [][Next]_vars

(***************************************************************************)
(* Properties                                                              *)
(***************************************************************************)
SameReferenceIdentifier(a, b) ==
    /\ a.some = b.some
    /\ a.some => (a.val.tag = b.val.tag /\ a.val.v = b.val.v)

SameMessage(a, b) ==
    /\ a.li = b.li
    /\ a.vn = b.vn
    /\ a.mode = b.mode
    /\ a.stratum = b.stratum
    /\ a.poll_interval = b.poll_interval
    /\ a.precision = b.precision
    /\ a.root_delay = b.root_delay
    /\ a.root_dispersion = b.root_dispersion
    /\ SameReferenceIdentifier(a.reference_identifier, b.reference_identifier)
    /\ a.reference_timestamp = b.reference_timestamp
    /\ a.originate_timestamp = b.originate_timestamp
    /\ a.receive_timestamp = b.receive_timestamp
    /\ a.transmit_timestamp = b.transmit_timestamp

FromFrame == ~res.some /\ stage \in {"msg", "wire", "done", "failed"}
FromResponse == res.some /\ stage \in {"msg", "wire", "done"}

\* C1: when a frame of at least 48 bytes decodes, encoding the decoded
\* message and decoding those 48 bytes succeeds and yields a message equal
\* field for field to the first one.
C1_MessageRoundTrip ==
    (FromFrame /\ stage = "done" /\ Len(frame) >= 48 /\ msg.ok)
        => (msg2.ok /\ Len(wire) = 48 /\ SameMessage(msg2.val, msg.val))

\* A decoded frame whose re-encoding differs from the frame (stratum byte 15,
\* a ten-digit fraction) and still decodes to the same message.
C1_Witness ==
    /\ FromFrame /\ stage = "done" /\ msg2.ok
    /\ frame[2] = 15
    /\ SubSeq(frame, 41, 48) = TsMax
    /\ wire # SubSeq(frame, 1, 48)
    /\ msg.val.reference_identifier.some

\* C2: decoding a buffer of 0 to 47 bytes fails with the length error,
\* returns no message and has read nothing from the buffer.
C2_ShortBufferLengthError ==
    (FromFrame /\ Len(frame) < 48)
        => (stage = "failed" /\ ~msg.ok /\ msg.err = "Packet is too small"
            /\ msg.rest = frame)

\* A 47-byte buffer whose flags byte carries the invalid version 7.
C2_Witness ==
    /\ FromFrame /\ stage = "failed"
    /\ Len(frame) = 47
    /\ frame[1] = 254
    /\ msg.err = "Packet is too small"

\* C3: the reply handed to the transport carries the request's transmit
\* timestamp bytes 40..47 as its originate timestamp bytes 24..31.
C3_OriginateEchoesTransmit ==
    pc = "send" => SubSeq(reply, 25, 32) = SubSeq(datagram, 41, 48)

\* round(n * 2^32 / 10^9) as a limb pair, by binary long division.
RECURSIVE frac_step(_, _, _)
frac_step(r, k, q) ==
    IF k = 0 THEN <<q, r>>
    ELSE IF 2 * r >= NANOS_PER_SEC
         THEN frac_step(2 * r - NANOS_PER_SEC, k - 1, 2 * q + 1)
         ELSE frac_step(2 * r, k - 1, 2 * q)

ExactFraction(n) ==
    LET hi == frac_step(n, 16, 0)
        lo == frac_step(hi[2], 16, 0)
        up == IF 2 * lo[2] >= NANOS_PER_SEC THEN 1 ELSE 0
    IN  IF lo[1] + up = Limb THEN <<hi[1] + 1, 0>> ELSE <<hi[1], lo[1] + up>>

\* C4: the 8 encoded bytes are the big-endian seconds since 1900 followed by
\* the big-endian value round(nanoseconds * 2^32 / 10^9).
C4_ExactFixedPointEncoding ==
    ts_stage \in {"bytes", "back"}
        => ts_wire = u32_to_be_bytes(i64_add(ts.secs, NTP_UNIX_OFFSET))
                        \o u32_to_be_bytes(ExactFraction(ts.nanos))

\* C5: decoding the encoding of an instant other than the 1900-01-01T00:00:00
\* sentinel yields that instant.
C5_TimestampRoundTrip ==
    (ts_stage = "back" /\ ts # Instant(<<-33707, 33152>>, 0))
        => (ts_back.ok /\ ts_back.val = ts)

\* The four reference-identifier bytes spell no name of the vocabulary.
UnknownSource(b) ==
    \A n \in ExternalReferenceSource :
        b # ExternalReferenceSource_as_ref[n]
            \o Zeros(4 - Len(ExternalReferenceSource_as_ref[n]))

\* C6: a frame with a valid version, a mode other than Client, stratum byte 1
\* and a non-zero transmit timestamp decodes whatever its reference-identifier
\* bytes are, to Primary(None) when they spell no known source.
C6_UnknownPrimaryIsSoft ==
    (/\ FromFrame /\ Len(frame) >= 48
     /\ (frame[1] % 64) \div 8 \in 1..4
     /\ frame[1] % 8 # 3
     /\ frame[2] = 1
     /\ SubSeq(frame, 41, 48) # Zeros(8))
        => (/\ msg.ok
            /\ UnknownSource(SubSeq(frame, 13, 16))
                 => msg.val.reference_identifier = Some(RefId("Primary", None)))

\* C7: every source name, written by encode right-padded to 4 bytes at offsets
\* 12..15, decodes to the same source again.
C7_SourceSurvivesWire ==
    (/\ FromResponse /\ stage = "done"
     /\ res.val.stratum = "PrimaryReference"
     /\ res.val.reference_identifier.tag = "Primary"
     /\ res.val.reference_identifier.v.some)
        => LET name == ExternalReferenceSource_as_ref[res.val.reference_identifier.v.val]
           IN  /\ SubSeq(wire, 13, 16) = name \o Zeros(4 - Len(name))
               /\ msg2.ok
               /\ msg2.val.reference_identifier = Some(res.val.reference_identifier)

\* C8: the built message has mode Server, every other field is the input's,
\* and the transmit timestamp is the supplied one, or the clock instant at
\* build time when none is supplied.
C8_BuildResponse ==
    FromResponse =>
        LET r == res.val
            m == msg.val
        IN  /\ m.mode = "Server"
            /\ m.li = r.leap_indicator
            /\ m.vn = r.version_number
            /\ m.stratum = r.stratum
            /\ m.poll_interval = r.poll_interval
            /\ m.precision = r.precision
            /\ m.root_delay = r.root_delay
            /\ m.root_dispersion = r.root_dispersion
            /\ m.reference_identifier = Some(r.reference_identifier)
            /\ m.reference_timestamp = Some(r.reference_timestamp)
            /\ m.originate_timestamp = r.originate_timestamp
            /\ m.receive_timestamp = Some(r.receive_timestamp)
            /\ m.transmit_timestamp =
                   IF r.transmit_timestamp.some THEN r.transmit_timestamp.val ELSE now

\* A response built from Kiss-of-Death data without a transmit timestamp.
C8_Witness ==
    /\ FromResponse /\ stage = "msg"
    /\ res.val.stratum = "KissODeathMessage"
    /\ ~res.val.transmit_timestamp.some
    /\ msg.val.transmit_timestamp = now
    /\ msg.val.mode = "Server"

\* C9: a datagram that fails to decode sends nothing and takes the loop back
\* to waiting with a 512-byte buffer; the loop stops only on a transport
\* error.
C9_BadPacketNeverStops ==
    [][/\ (pc = "decode" /\ ~NtpMessage_try_from(data).ok)
           => (pc' = "recv" /\ buf_len' = BUF_SIZE /\ n_sent' = n_sent
               /\ reply' = <<>>)
       /\ (pc # "stopped" /\ pc' = "stopped")
           => (pc \in {"recv", "send"}
               /\ exit_cause' \in {"recv_from error", "send_to error"})]_vars

\* After a reply was sent, a datagram with a zero transmit timestamp was
\* discarded and the loop waits again.
C9_Witness ==
    /\ pc = "recv"
    /\ n_sent >= 1
    /\ logged = "Unable to parse transmit timestamp"
    /\ buf_len = BUF_SIZE
    /\ exit_cause = "running"

StratumDeterminesVariant(m) ==
    m.reference_identifier.some =>
        LET tag == m.reference_identifier.val.tag
        IN  /\ tag = "KissODeath" => m.stratum = "KissODeathMessage"
            /\ tag = "Primary" => m.stratum = "PrimaryReference"
            /\ tag = "UnknownIpVersion" => m.stratum = "SecondaryReference"
            /\ tag = "ReservedStratum" => m.stratum = "Reserved"

\* C10: in every message the loop decodes or builds, the variant of a present
\* reference identifier is the one its stratum determines.
C10_VariantDeterminedByStratum ==
    /\ packet.ok => StratumDeterminesVariant(packet.val)
    /\ response.some => StratumDeterminesVariant(response.val)

====
